---- MODULE Spec2Model ----
(***************************************************************************)
(* Model of the Instagram ingestion pipeline of utils/instagram.ts:        *)
(* the store (organizers, posts, events), the ingestion run                *)
(* scrapeAllInstagramEvents with its per-organizer units and per-post      *)
(* tasks, the fixup invocations, and the pure sanitizer / normalizer /     *)
(* acceptance gate / instant construction.                                 *)
(*                                                                         *)
(* JavaScript values: a nullable value is None (null) or Some(v).          *)
(* One action is one continuation of the event loop: everything the code   *)
(* runs between the completion of one awaited operation and the next       *)
(* await, promise resolutions (microtasks) included.                       *)
(***************************************************************************)
EXTENDS Integers, Sequences, FiniteSets, TLC

\* ------------------------------------------------------------------------
\* Nullable values
\* ------------------------------------------------------------------------
None == <<>>
Some(v) == <<v>>
Val(m) == m[1]
\* JavaScript's numeric coercion of a nullable number: null + 2 is 2.
Num(m) == IF m = None THEN 0 ELSE m[1]

\* ------------------------------------------------------------------------
\* The inference candidate (the JSON object the language model returns)
\* ------------------------------------------------------------------------
RequiredKeys ==
    {"isEvent", "title", "startHourMilitaryTime", "endHourMilitaryTime",
     "isPastEvent", "hasStartHourInPost", "startMinute", "endMinute",
     "startDay", "endDay", "startMonth", "endMonth", "startYear", "endYear"}

\* new Date().getFullYear() at the time of the run.
CurrentYear == 2023

\* A candidate is a function from the keys present in the object to values.
Without(c, k) == [x \in (DOMAIN c) \ {k} |-> c[x]]

\* Variant: the shape check forgets one of the fourteen keys.
hasAllPropertiesForgetsTitle(object) == (RequiredKeys \ {"title"}) \subseteq DOMAIN object

\* Object.hasOwn for each of the fourteen keys.
hasAllProperties(object) == RequiredKeys \subseteq DOMAIN object

Upd(object, k, v) == [object EXCEPT ![k] = v]

\* Post-processing rules, in the order of the code.
RuleStartYear(o) ==
    IF o["startYear"] = None THEN Upd(o, "startYear", Some(CurrentYear)) ELSE o

RuleEndYear(o) ==
    IF o["endYear"] = None THEN Upd(o, "endYear", o["startYear"]) ELSE o

RuleMinutes(o) ==
    LET a == IF o["startMinute"] = None THEN Upd(o, "startMinute", Some(0)) ELSE o
    IN  IF a["endMinute"] = None THEN Upd(a, "endMinute", Some(0)) ELSE a

RuleRollover(o) ==
    IF o["startMonth"] = Some(12) /\ o["endMonth"] = Some(1)
    THEN Upd(o, "endYear", Some(Num(o["startYear"]) + 1))
    ELSE o

RuleEndMonth(o) ==
    IF o["endMonth"] = None THEN Upd(o, "endMonth", o["startMonth"]) ELSE o

RuleEndDay(o) ==
    IF o["endDay"] = None THEN Upd(o, "endDay", o["startDay"]) ELSE o

\* Variant: the sum is kept as it is when it exceeds 23.
RuleEndHourNoWrap(o) ==
    IF o["endHourMilitaryTime"] = None
    THEN Upd(o, "endHourMilitaryTime", Some(Num(o["startHourMilitaryTime"]) + 2))
    ELSE o

RuleEndHour(o) ==
    IF o["endHourMilitaryTime"] = None
    THEN LET h == Num(o["startHourMilitaryTime"]) + 2
         IN  IF h > 23
             THEN Upd(Upd(o, "endHourMilitaryTime", Some(h - 24)),
                      "endDay", Some(Num(o["startDay"]) + 1))
             ELSE Upd(o, "endHourMilitaryTime", Some(h))
    ELSE o

\* Variant: the rollover rule is applied before the years are defaulted.
NormalizeRolloverFirst(object) ==
    RuleEndHour(RuleEndDay(RuleEndMonth(RuleMinutes(
        RuleEndYear(RuleStartYear(RuleRollover(object)))))))

Normalize(object) ==
    RuleEndHour(RuleEndDay(RuleEndMonth(RuleRollover(
        RuleMinutes(RuleEndYear(RuleStartYear(object)))))))

\* postProcessOpenAiInstagramResponse on a parsed object: throws when a key
\* is missing, else returns the object after the post-processing rules.
postProcessThrows(object) == ~hasAllProperties(object)
postProcessOpenAiInstagramResponse(object) == Normalize(object)

\* ------------------------------------------------------------------------
\* Luxon DateTime in the zone America/Los_Angeles, to the minute.
\* A wall-clock time is a number of minutes since 1970-01-01T00:00 local.
\* ------------------------------------------------------------------------
IsLeap(y) == (y % 4 = 0 /\ y % 100 # 0) \/ y % 400 = 0

DaysInMonth(y, m) ==
    IF m = 2 THEN (IF IsLeap(y) THEN 29 ELSE 28)
    ELSE IF m \in {4, 6, 9, 11} THEN 30 ELSE 31

\* Days from 1970-01-01 to the civil date y-m-d (proleptic Gregorian).
DaysFromCivil(y, m, d) ==
    LET yy  == IF m <= 2 THEN y - 1 ELSE y
        era == yy \div 400
        yoe == yy - era * 400
        mp  == IF m > 2 THEN m - 3 ELSE m + 9
        doy == (153 * mp + 2) \div 5 + d - 1
        doe == yoe * 365 + yoe \div 4 - yoe \div 100 + doy
    IN  era * 146097 + doe - 719468

\* Day of week of a day number, 0 = Sunday (1970-01-01 was a Thursday).
Weekday(days) == (days + 4) % 7

\* Day number of the n-th Sunday of month m of year y.
NthSunday(y, m, n) ==
    LET first == DaysFromCivil(y, m, 1)
    IN  first + ((7 - Weekday(first)) % 7) + 7 * (n - 1)

\* Year of a day number.
YearOfDays(days) ==
    LET guess == 1970 + (days * 400) \div 146097
    IN  CHOOSE y \in (guess - 1)..(guess + 1) :
            DaysFromCivil(y, 1, 1) <= days /\ days < DaysFromCivil(y + 1, 1, 1)

\* Variant: the daylight-saving offset is used all year.
ZoneOffsetAlwaysDaylight(local) == 420

\* Offset to add to a Los Angeles wall-clock time to get UTC, in minutes:
\* PDT (UTC-7) from the second Sunday of March 02:00 to the first Sunday of
\* November 02:00, PST (UTC-8) otherwise.
ZoneOffset(local) ==
    LET days == local \div 1440
        y    == YearOfDays(days)
        from == NthSunday(y, 3, 2) * 1440 + 120
        to   == NthSunday(y, 11, 1) * 1440 + 120
    IN  IF from <= local /\ local < to THEN 420 ELSE 480

\* A DateTime is Some(wall-clock minutes), or Invalid.
Invalid == None

\* DateTime.fromObject({year, month, day, hour, minute}, {zone}): units
\* given as null are dropped and, being below the year, take their default
\* (month 1, day 1, hour 0, minute 0); an out-of-range unit makes the
\* DateTime invalid.
FromObject(year, month, day, hour, minute) ==
    LET y  == Val(year)
        m  == IF month = None THEN 1 ELSE Val(month)
        d  == IF day = None THEN 1 ELSE Val(day)
        h  == IF hour = None THEN 0 ELSE Val(hour)
        mi == IF minute = None THEN 0 ELSE Val(minute)
    IN  IF /\ m \in 1..12
           /\ d \in 1..DaysInMonth(y, m)
           /\ h \in 0..23
           /\ mi \in 0..59
        THEN Some(DaysFromCivil(y, m, d) * 1440 + h * 60 + mi)
        ELSE Invalid

\* DateTime.plus({days: n}): calendar days, the wall-clock time is kept.
PlusDays(dt, n) == IF dt = Invalid THEN Invalid ELSE Some(Val(dt) + n * 1440)

\* DateTime.toUTC().toJSDate(): Some(minutes since the epoch), or Invalid
\* (an Invalid Date).
ToUTC(dt) == IF dt = Invalid THEN Invalid ELSE Some(Val(dt) + ZoneOffset(Val(dt)))

\* The UTC instant y-m-dTh:mi:00Z, for stating expected values.
UtcInstant(y, m, d, h, mi) == DaysFromCivil(y, m, d) * 1440 + h * 60 + mi

\* ------------------------------------------------------------------------
\* persistEvent: the acceptance gate and the instants of the event
\* ------------------------------------------------------------------------
\* Variant: the gate forgets the isPastEvent flag.
GateIgnoresPast(inference) ==
    /\ inference["isEvent"] = Some(TRUE)
    /\ inference["startDay"] # None
    /\ inference["startHourMilitaryTime"] # None
    /\ inference["endHourMilitaryTime"] # None
    /\ inference["startMinute"] # None
    /\ inference["endMinute"] # None
    /\ inference["endDay"] # None
    /\ inference["hasStartHourInPost"] = Some(TRUE)

Gate(inference) ==
    /\ inference["isEvent"] = Some(TRUE)
    /\ inference["startDay"] # None
    /\ inference["startHourMilitaryTime"] # None
    /\ inference["endHourMilitaryTime"] # None
    /\ inference["startMinute"] # None
    /\ inference["endMinute"] # None
    /\ inference["endDay"] # None
    /\ inference["hasStartHourInPost"] = Some(TRUE)
    /\ inference["isPastEvent"] = Some(FALSE)

EventStart(inference) ==
    ToUTC(FromObject(inference["startYear"], inference["startMonth"],
                     inference["startDay"], inference["startHourMilitaryTime"],
                     inference["startMinute"]))

EventEnd(inference) ==
    ToUTC(PlusDays(FromObject(inference["endYear"], inference["endMonth"],
                              inference["startDay"], inference["endHourMilitaryTime"],
                              inference["endMinute"]),
                   Val(inference["endDay"]) - Val(inference["startDay"])))

\* ------------------------------------------------------------------------
\* Bounds and the configured world
\* ------------------------------------------------------------------------
\* Ingestion runs (scrapeAllInstagramEvents) and fixup invocations that may
\* be in progress at the same time; a finished one whose posts have all
\* settled may be followed by a new one, any number of times.
MaxRuns == 1
MaxFixups == 1
\* Failures of the store and of the external services injected in all.
MaxFaults == 1
\* Calls of scrapeInstagramEventsForUser that may be in progress at the same
\* time.
MaxUsers == 2

Runs == 1..MaxRuns
Fixups == 1..MaxFixups
Users == 1..MaxUsers

\* eventSourcesJSON.instagram: the configured usernames.
Sources == {"a", "b"}

\* The posts the Instagram API may return, with their organizer: both are
\* posts of "a"; the account "b" has not posted.
PostIds == {1, 2}
OrgOf(p) == "a"
PostsOf(s) == {p \in PostIds : OrgOf(p) = s}

\* getMediaUrls is non-null (post 2 is a VIDEO: no media urls).
HasMedia(p) == p # 2

\* A task is one execution of handleInstagramPost (owned by a run) or of
\* extractEventFromPost (owned by a fixup invocation) on one post.
RunOwner(r) == <<"run", r>>
FixOwner(f) == <<"fix", f>>
UserOwner(u) == <<"user", u>>
Owners ==
    {RunOwner(r) : r \in Runs} \cup {FixOwner(f) : f \in Fixups}
    \cup {UserOwner(u) : u \in Users}

\* The usernames scrapeInstagramEventsForUser may be called with: the
\* configured ones and one that is not configured.
Unknown == "zz"
Names == Sources \cup {Unknown}

\* The direct event feeds, the sources configured for each of them
\* (eventbriteAccounts, tockify, withFriends) and the one entry of
\* eventbriteSingleEventSeries.
Feeds == {"eventbrite", "tockify", "withFriends"}
FeedSources == {"x", "y"}
SeriesSource == "z"

\* The X-App-Usage header: absent, or the three metrics.
NoUsage == <<>>
Usage(c, t, w) == <<[call_count |-> c, total_cputime |-> t, total_time |-> w]>>

VARIABLES
    organizers,   \* usernames of the stored InstagramEventOrganizer rows
    dbPosts,      \* ids of the stored InstagramPost rows
    completed,    \* ids of the stored posts whose completedAt is not null
    events,       \* events[p]: the stored InstagramEvent rows of post p, as
                  \* [start, end], in the order of their creation
    run,          \* run[r]: state of the r-th scrapeAllInstagramEvents call
    unit,         \* unit[r][s]: the async callback of run r for source s
    task,         \* task[o][p]: the processing of post p owned by o
    fixup,        \* fixup[f]: state of the f-th fixupInstagramIngestion call
    faults,       \* number of failures injected so far
    user,         \* user[u]: state of the u-th scrapeInstagramEventsForUser call
    storage,      \* storage[k]: the item useStorage() holds for feed k
    feed          \* feed[k]: state of the fetch of the direct event feed k

feedVars == <<storage, feed>>
vars == <<organizers, dbPosts, completed, events, run, unit, task, fixup, faults,
          user, storage, feed>>

IdleUnit == [pc |-> "idle", usage |-> NoUsage, outcome |-> "none", count |-> 0]
IdleTask == [pc |-> "none", steps |-> <<>>, err |-> "none", raw |-> None, inf |-> None]
IdleFixup == [pc |-> "idle", sel |-> {}]
IdleUser == [name |-> "", err |-> "none", unit |-> IdleUnit]
\* One source of a feed: its fetch (st), the kind of response it got (ok)
\* and the events made from the body (evs).
IdleSource == [st |-> "idle", ok |-> "none", evs |-> {}]
\* A call of a feed's fetch function: old is the list read from the storage,
\* fresh the list assigned from Promise.all, all the list to be stored,
\* out the value returned.
IdleFeed ==
    [pc |-> "idle", old |-> None, src |-> [s \in FeedSources |-> IdleSource],
     fresh |-> None, all |-> None, out |-> None]

\* Positions of a task at which an awaited operation is in flight.
InFlight == {"create", "ocr", "infer", "eventCreate", "update"}
\* Positions at which the task's promise has resolved (with null).
Resolved == {"skipped", "noContent", "rejected", "accepted"}

Init ==
    /\ organizers = {}
    /\ dbPosts = {}
    /\ completed = {}
    /\ events = [p \in PostIds |-> <<>>]
    /\ run = [r \in Runs |-> "idle"]
    /\ unit = [r \in Runs |-> [s \in Sources |-> IdleUnit]]
    /\ task = [o \in Owners |-> [p \in PostIds |-> IdleTask]]
    /\ fixup = [f \in Fixups |-> IdleFixup]
    /\ faults = 0
    /\ user = [u \in Users |-> IdleUser]
    /\ storage = [k \in Feeds |-> None]
    /\ feed = [k \in Feeds |-> IdleFeed]

\* ------------------------------------------------------------------------
\* Promise plumbing: what a settled task does to its unit, and a settled
\* unit to its run (microtasks, part of the step that settles the task)
\* ------------------------------------------------------------------------
\* persistEvent returns null on every path, so handleInstagramPost resolves
\* with null whatever happened.
HandleResult(t) == None

\* ingestEventsForOrganizer after Promise.all over the posts of source s,
\* given the tasks tk of the run: the catch returns [] as soon as one task
\* has rejected; the events are the non-null results once all have resolved.
SettlePosts(u, tk, s) ==
    IF u.pc # "posts" THEN u
    ELSE IF \E p \in PostsOf(s) : tk[p].pc = "failed"
         THEN [u EXCEPT !.pc = "returned", !.outcome = "caught", !.count = 0]
    ELSE IF \A p \in PostsOf(s) : tk[p].pc \notin InFlight
         THEN [u EXCEPT !.pc = "returned", !.outcome = "ok",
                        !.count = Cardinality({p \in PostsOf(s) :
                                     tk[p].pc # "none" /\ HandleResult(tk[p]) # None})]
    ELSE u

\* scrapeAllInstagramEvents after Promise.all over the sources: it rejects
\* (the exception reaches the caller) as soon as one callback has rejected,
\* and logs the completion summary once all have returned.
SettleRun(status, us) ==
    IF status # "running" THEN status
    ELSE IF \E s \in Sources : us[s].pc = "rejected" THEN "aborted"
    ELSE IF \A s \in Sources : us[s].pc = "returned" THEN "completed"
    ELSE status

\* The new unit and run state after the tasks of owner o became tk.
Propagate(o, tk) ==
    IF o[1] = "run"
    THEN LET r  == o[2]
             us == [s \in Sources |-> SettlePosts(unit[r][s], tk, s)]
         IN  /\ unit' = [unit EXCEPT ![r] = us]
             /\ run' = [run EXCEPT ![r] = SettleRun(run[r], us)]
             /\ UNCHANGED user
    ELSE IF o[1] = "user"
    THEN LET u == o[2]
         IN  /\ user' = [user EXCEPT ![u].unit =
                            SettlePosts(user[u].unit, tk, user[u].name)]
             /\ UNCHANGED <<unit, run>>
    ELSE UNCHANGED <<unit, run, user>>

SetUnit(r, s, u) ==
    LET us == [unit[r] EXCEPT ![s] = u]
    IN  /\ unit' = [unit EXCEPT ![r] = us]
        /\ run' = [run EXCEPT ![r] = SettleRun(run[r], us)]

\* ------------------------------------------------------------------------
\* scrapeAllInstagramEvents and the per-source callback
\* ------------------------------------------------------------------------
\* A run starts; each callback runs to its first await (findUnique).
StartRun(r) ==
    /\ run[r] # "running"
    /\ \A s \in Sources : unit[r][s].pc \in {"idle", "returned", "rejected"}
    /\ \A p \in PostIds : task[RunOwner(r)][p].pc \notin InFlight
    /\ r > 1 => run[r - 1] # "idle"
    /\ run' = [run EXCEPT ![r] = "running"]
    /\ unit' = [unit EXCEPT ![r] = [s \in Sources |-> [IdleUnit EXCEPT !.pc = "lookup"]]]
    /\ task' = [task EXCEPT ![RunOwner(r)] = [p \in PostIds |-> IdleTask]]
    /\ UNCHANGED <<organizers, dbPosts, completed, events, fixup, faults, user, feedVars>>

\* getOrInsertOrganizer: findUnique answers.
OrgLookupDone(r, s) ==
    /\ unit[r][s].pc = "lookup"
    /\ SetUnit(r, s, [unit[r][s] EXCEPT !.pc =
                        IF s \in organizers THEN "fetch" ELSE "orgCreate"])
    /\ UNCHANGED <<organizers, dbPosts, completed, events, task, fixup, faults, user, feedVars>>

\* getOrInsertOrganizer: create answers; the username is unique, so a row
\* created meanwhile by another caller makes the create throw.
OrgCreateDone(r, s) ==
    /\ unit[r][s].pc = "orgCreate"
    /\ IF s \in organizers
       THEN /\ SetUnit(r, s, [unit[r][s] EXCEPT !.pc = "rejected", !.outcome = "orgConflict"])
            /\ UNCHANGED organizers
       ELSE /\ organizers' = organizers \cup {s}
            /\ SetUnit(r, s, [unit[r][s] EXCEPT !.pc = "fetch"])
    /\ UNCHANGED <<dbPosts, completed, events, task, fixup, faults, user, feedVars>>

\* The store fails during getOrInsertOrganizer: nothing catches it.
OrgOpFails(r, s) ==
    /\ unit[r][s].pc \in {"lookup", "orgCreate"}
    /\ SetUnit(r, s, [unit[r][s] EXCEPT !.pc = "rejected", !.outcome = "orgError"])
    /\ faults < MaxFaults
    /\ faults' = faults + 1
    /\ UNCHANGED <<organizers, dbPosts, completed, events, task, fixup, user, feedVars>>

\* Variant: the guard compares with > instead of >=.
ShouldHaltStrict(usage) ==
    /\ usage # NoUsage
    /\ \/ Val(usage).call_count > 100
       \/ Val(usage).total_cputime > 100
       \/ Val(usage).total_time > 100

\* The rate-limit guard of fetchPosts.
ShouldHalt(usage) ==
    /\ usage # NoUsage
    /\ \/ Val(usage).call_count >= 100
       \/ Val(usage).total_cputime >= 100
       \/ Val(usage).total_time >= 100

\* fetchPosts: the response arrives with its headers; the guard throws, and
\* the catch of ingestEventsForOrganizer returns [], or response.json() is
\* awaited.
FetchResponse(r, s, usage) ==
    /\ unit[r][s].pc = "fetch"
    /\ SetUnit(r, s, IF ShouldHalt(usage)
                     THEN [unit[r][s] EXCEPT !.pc = "returned", !.usage = usage,
                                             !.outcome = "rateLimited", !.count = 0]
                     ELSE [unit[r][s] EXCEPT !.pc = "body", !.usage = usage])
    /\ UNCHANGED <<organizers, dbPosts, completed, events, task, fixup, faults, user, feedVars>>

\* fetchPosts: the body arrives with the posts ps; every handleInstagramPost
\* runs to its first await (the post create). No post: Promise.all([])
\* resolves at once.
FetchBody(r, s, ps) ==
    /\ unit[r][s].pc = "body"
    /\ LET tk == [p \in PostIds |->
                    IF p \in ps THEN [IdleTask EXCEPT !.pc = "create"]
                    ELSE task[RunOwner(r)][p]]
       IN  /\ task' = [task EXCEPT ![RunOwner(r)] = tk]
           /\ SetUnit(r, s, SettlePosts([unit[r][s] EXCEPT !.pc = "posts"], tk, s))
    /\ UNCHANGED <<organizers, dbPosts, completed, events, fixup, faults, user, feedVars>>

\* Variant: ingestEventsForOrganizer has no try/catch: the exception of
\* fetchPosts rejects the callback of the source.
FetchFailsUncaught(r, s) ==
    /\ unit[r][s].pc \in {"fetch", "body"}
    /\ SetUnit(r, s, [unit[r][s] EXCEPT !.pc = "rejected", !.outcome = "fetchError"])
    /\ faults < MaxFaults
    /\ faults' = faults + 1
    /\ UNCHANGED <<organizers, dbPosts, completed, events, task, fixup, user, feedVars>>

\* fetchPosts throws (network error, unreadable body, error object in the
\* body): the catch of ingestEventsForOrganizer returns [].
FetchFails(r, s) ==
    /\ unit[r][s].pc \in {"fetch", "body"}
    /\ SetUnit(r, s, [unit[r][s] EXCEPT !.pc = "returned", !.outcome = "fetchError",
                                        !.count = 0])
    /\ faults < MaxFaults
    /\ faults' = faults + 1
    /\ UNCHANGED <<organizers, dbPosts, completed, events, task, fixup, user, feedVars>>

\* ------------------------------------------------------------------------
\* Processing of one post: handleInstagramPost / extractEventFromPost
\* ------------------------------------------------------------------------
SetTask(o, p, t) ==
    LET tk == [task[o] EXCEPT ![p] = t]
    IN  /\ task' = [task EXCEPT ![o] = tk]
        /\ Propagate(o, tk)

Did(t, op) == [t EXCEPT !.steps = Append(t.steps, op)]

\* Variant: the inference call is made without waiting for the OCR.
StartExtractInferFirst(t, p) == [t EXCEPT !.pc = "infer"]

\* extractEventFromPost runs to its first await: the OCR call when the post
\* has media urls, else the inference call with a null image text.
StartExtract(t, p) == [t EXCEPT !.pc = IF HasMedia(p) THEN "ocr" ELSE "infer"]

\* Variant: handleInstagramPost goes on with a post that was already known.
AfterPostCreateNoSkip(t, p, known) == StartExtract(Did(t, "postCreate"), p)

\* handleInstagramPost after persistPostNoneIfPresent answered: null (the
\* unique constraint on the id, P2002) ends the processing of the post.
AfterPostCreate(t, p, known) ==
    IF known THEN [Did(t, "postCreate") EXCEPT !.pc = "skipped"]
    ELSE StartExtract(Did(t, "postCreate"), p)

\* Variant: the post is written with an upsert, which overwrites the stored
\* row and with it the completion.
PostCreateDoneUpserts(o, p) ==
    /\ task[o][p].pc = "create"
    /\ dbPosts' = dbPosts \cup {p}
    /\ completed' = completed \ {p}
    /\ SetTask(o, p, AfterPostCreate(task[o][p], p, p \in dbPosts))
    /\ UNCHANGED <<organizers, events, fixup, faults, feedVars>>

\* prisma.instagramPost.create answers.
PostCreateDone(o, p) ==
    /\ task[o][p].pc = "create"
    /\ dbPosts' = dbPosts \cup {p}
    /\ SetTask(o, p, AfterPostCreate(task[o][p], p, p \in dbPosts))
    /\ UNCHANGED <<organizers, completed, events, fixup, faults, feedVars>>

\* fetchOcrResults answers: the inference call is made.
OcrDone(o, p) ==
    /\ task[o][p].pc = "ocr"
    /\ SetTask(o, p, [Did(task[o][p], "ocr") EXCEPT !.pc = "infer"])
    /\ UNCHANGED <<organizers, dbPosts, completed, events, fixup, faults, feedVars>>

\* What executePrompt may answer: no content, text that does not parse as
\* JSON, or a JSON object.
Empty == <<"empty">>
Garbage == <<"garbage">>
Content(c) == <<"content", c>>
Replies(Cands) == {Empty, Garbage} \cup {Content(c) : c \in Cands}

\* runInferenceOnPost after executePrompt answered, then persistEvent up to
\* its first await (the event create).
AfterInference(t, reply) ==
    IF reply = Empty THEN [t EXCEPT !.pc = "noContent"]
    ELSE IF reply = Garbage THEN [t EXCEPT !.pc = "failed", !.err = "parse"]
    ELSE LET object == reply[2]
         IN  IF postProcessThrows(object)
             THEN [t EXCEPT !.pc = "failed", !.err = "shape", !.raw = Some(object)]
             ELSE LET inference == postProcessOpenAiInstagramResponse(object)
                  IN  [t EXCEPT !.raw = Some(object), !.inf = Some(inference),
                                !.pc = IF Gate(inference) THEN "eventCreate"
                                       ELSE "rejected"]

InferenceReturns(o, p, reply) ==
    /\ task[o][p].pc = "infer"
    /\ SetTask(o, p, AfterInference(Did(task[o][p], "infer"), reply))
    /\ UNCHANGED <<organizers, dbPosts, completed, events, fixup, faults, feedVars>>

\* The row prisma.instagramEvent.create writes for post p.
NewEvent(p, inference) ==
    [start |-> Val(EventStart(inference)), end |-> Val(EventEnd(inference))]

\* The store's answer to a second event for the same post: the events
\* table is keyed by a generated id and carries no uniqueness constraint on
\* its post reference (only the organizer handle and the post id are
\* unique), so the create is not refused.
EventCreateConflicts(p) == FALSE

\* prisma.instagramEvent.create answers: an Invalid Date is refused, else
\* the row is written and the completion update is issued.
EventCreateDone(o, p) ==
    /\ task[o][p].pc = "eventCreate"
    /\ LET inference == Val(task[o][p].inf)
       IN  IF \/ EventStart(inference) = Invalid
              \/ EventEnd(inference) = Invalid
              \/ EventCreateConflicts(p)
           THEN /\ SetTask(o, p, [Did(task[o][p], "eventCreate") EXCEPT
                                     !.pc = "failed", !.err = "invalidDate"])
                /\ UNCHANGED events
           ELSE /\ events' = [events EXCEPT ![p] = Append(@, NewEvent(p, inference))]
                /\ SetTask(o, p, [Did(task[o][p], "eventCreate") EXCEPT !.pc = "update"])
    /\ UNCHANGED <<organizers, dbPosts, completed, fixup, faults, feedVars>>

\* prisma.instagramPost.update answers: completedAt is set.
UpdateDone(o, p) ==
    /\ task[o][p].pc = "update"
    /\ completed' = completed \cup {p}
    /\ SetTask(o, p, [Did(task[o][p], "update") EXCEPT !.pc = "accepted"])
    /\ UNCHANGED <<organizers, dbPosts, events, fixup, faults, feedVars>>

\* The awaited operation of a task (store, OCR or inference service) fails:
\* the exception leaves handleInstagramPost / extractEventFromPost.
TaskOpFails(o, p) ==
    /\ task[o][p].pc \in InFlight
    /\ SetTask(o, p, [Did(task[o][p], task[o][p].pc) EXCEPT
                         !.pc = "failed", !.err = task[o][p].pc])
    /\ faults < MaxFaults
    /\ faults' = faults + 1
    /\ UNCHANGED <<organizers, dbPosts, completed, events, fixup, feedVars>>

\* ------------------------------------------------------------------------
\* fixupInstagramIngestion
\* ------------------------------------------------------------------------
StartFixup(f) ==
    /\ fixup[f].pc \in {"idle", "returned", "rejected"}
    /\ \A p \in PostIds : task[FixOwner(f)][p].pc \notin InFlight
    /\ f > 1 => fixup[f - 1].pc # "idle"
    /\ fixup' = [fixup EXCEPT ![f] = [pc |-> "findPosts", sel |-> {}]]
    /\ task' = [task EXCEPT ![FixOwner(f)] = [p \in PostIds |-> IdleTask]]
    /\ UNCHANGED <<organizers, dbPosts, completed, events, run, unit, faults, user, feedVars>>

\* Variant: findMany selects the posts that have a completion.
FixupFindPostsCompleted(f) ==
    /\ fixup[f].pc = "findPosts"
    /\ fixup' = [fixup EXCEPT ![f].pc = "findOrganizers",
                              ![f].sel = dbPosts \cap completed]
    /\ UNCHANGED <<organizers, dbPosts, completed, events, run, unit, task, faults, user, feedVars>>

\* findPosts: instagramPost.findMany({completedAt: null}) answers.
FixupFindPosts(f) ==
    /\ fixup[f].pc = "findPosts"
    /\ fixup' = [fixup EXCEPT ![f].pc = "findOrganizers",
                              ![f].sel = dbPosts \ completed]
    /\ UNCHANGED <<organizers, dbPosts, completed, events, run, unit, task, faults, user, feedVars>>

\* findPosts: instagramEventOrganizer.findMany answers; extractEventFromPost
\* is started on every selected post and the invocation returns without
\* awaiting them.
FixupDispatch(f) ==
    /\ fixup[f].pc = "findOrganizers"
    /\ fixup' = [fixup EXCEPT ![f].pc = "returned"]
    /\ task' = [task EXCEPT ![FixOwner(f)] =
                  [p \in PostIds |-> IF p \in fixup[f].sel
                                     THEN StartExtract(IdleTask, p)
                                     ELSE task[FixOwner(f)][p]]]
    /\ UNCHANGED <<organizers, dbPosts, completed, events, run, unit, faults, user, feedVars>>

\* A findMany of findPosts fails: the invocation rejects.
FixupFails(f) ==
    /\ fixup[f].pc \in {"findPosts", "findOrganizers"}
    /\ fixup' = [fixup EXCEPT ![f].pc = "rejected"]
    /\ faults < MaxFaults
    /\ faults' = faults + 1
    /\ UNCHANGED <<organizers, dbPosts, completed, events, run, unit, task, user, feedVars>>

\* ------------------------------------------------------------------------
\* scrapeInstagramEventsForUser
\* ------------------------------------------------------------------------
\* sources.filter(source => source.username === username), as a list.
Filtered(username) == IF username \in Sources THEN <<username>> ELSE <<>>

\* !filtered: an array, empty or not, is an object and never falsy.
NotFiltered(filtered) == FALSE

\* filtered[0]: undefined (None) when the list is empty.
FirstOf(filtered) == IF Len(filtered) > 0 THEN Some(filtered[1]) ELSE None

SetUser(u, rec) == user' = [user EXCEPT ![u].unit = rec]

\* The call runs to its first await.  The guard on the filtered list
\* throws 'No Instagram account'; getOrInsertOrganizer evaluates
\* source.username before it calls the store, which throws a TypeError when
\* source is undefined; else findUnique is awaited.
StartUser(u, username) ==
    /\ user[u].unit.pc = "idle"
    /\ u > 1 => user[u - 1].unit.pc # "idle"
    /\ LET filtered == Filtered(username)
           source   == FirstOf(filtered)
       IN  user' = [user EXCEPT ![u] =
              IF NotFiltered(filtered)
              THEN [name |-> username, err |-> "noAccount",
                    unit |-> [IdleUnit EXCEPT !.pc = "rejected"]]
              ELSE IF source = None
              THEN [name |-> username, err |-> "typeError",
                    unit |-> [IdleUnit EXCEPT !.pc = "rejected"]]
              ELSE [name |-> username, err |-> "none",
                    unit |-> [IdleUnit EXCEPT !.pc = "lookup"]]]
    /\ UNCHANGED <<organizers, dbPosts, completed, events, run, unit, task, fixup,
                   faults, feedVars>>

\* getOrInsertOrganizer: findUnique answers.
UserLookupDone(u) ==
    /\ user[u].unit.pc = "lookup"
    /\ SetUser(u, [user[u].unit EXCEPT !.pc =
                      IF user[u].name \in organizers THEN "fetch" ELSE "orgCreate"])
    /\ UNCHANGED <<organizers, dbPosts, completed, events, run, unit, task, fixup,
                   faults, feedVars>>

\* getOrInsertOrganizer: create answers; a row created meanwhile by
\* another caller makes the create throw, and nothing catches it.
UserOrgCreateDone(u) ==
    /\ user[u].unit.pc = "orgCreate"
    /\ IF user[u].name \in organizers
       THEN /\ user' = [user EXCEPT ![u].err = "orgConflict",
                                    ![u].unit.pc = "rejected",
                                    ![u].unit.outcome = "orgConflict"]
            /\ UNCHANGED organizers
       ELSE /\ organizers' = organizers \cup {user[u].name}
            /\ SetUser(u, [user[u].unit EXCEPT !.pc = "fetch"])
    /\ UNCHANGED <<dbPosts, completed, events, run, unit, task, fixup, faults, feedVars>>

\* fetchPosts: the response arrives with its headers.
UserFetchResponse(u, usage) ==
    /\ user[u].unit.pc = "fetch"
    /\ SetUser(u, IF ShouldHalt(usage)
                  THEN [user[u].unit EXCEPT !.pc = "returned", !.usage = usage,
                                            !.outcome = "rateLimited", !.count = 0]
                  ELSE [user[u].unit EXCEPT !.pc = "body", !.usage = usage])
    /\ UNCHANGED <<organizers, dbPosts, completed, events, run, unit, task, fixup,
                   faults, feedVars>>

\* fetchPosts: the body arrives with the posts ps; every handleInstagramPost
\* runs to its first await.
UserFetchBody(u, ps) ==
    /\ user[u].unit.pc = "body"
    /\ LET tk == [p \in PostIds |->
                    IF p \in ps THEN [IdleTask EXCEPT !.pc = "create"]
                    ELSE task[UserOwner(u)][p]]
       IN  /\ task' = [task EXCEPT ![UserOwner(u)] = tk]
           /\ SetUser(u, SettlePosts([user[u].unit EXCEPT !.pc = "posts"], tk,
                                     user[u].name))
    /\ UNCHANGED <<organizers, dbPosts, completed, events, run, unit, fixup,
                   faults, feedVars>>

\* ------------------------------------------------------------------------
\* The direct event feeds: fetchEventbriteEvents, fetchTockifyEvents,
\* fetchWithFriendsEvents
\* ------------------------------------------------------------------------
\* The events a 2xx body may hold.
FeedEvents == {{}, {"e"}}

\* The per-source callback after a response that is not ok.  Tockify and
\* With Friends return the empty source.  Eventbrite's error check returns
\* the empty source to the next link of the chain, res => res.text(), which
\* throws a TypeError on it: the callback rejects.
AfterNotOk(k, source) ==
    IF k = "eventbrite"
    THEN [source EXCEPT !.st = "failed", !.ok = "bad"]
    ELSE [source EXCEPT !.st = "done", !.ok = "bad", !.evs = {}]

\* The list Promise.all resolves with.
Collected(src) == Some([s \in FeedSources |-> src[s].evs])

\* allEventbriteSources: the accounts followed by the event series.
WithSeries(list, evs) ==
    Some([s \in FeedSources \cup {SeriesSource} |->
            IF s = SeriesSource THEN evs ELSE Val(list)[s]])

\* The call after a per-source callback settled: Promise.all rejects as
\* soon as one has rejected, and the catch logs and returns the list read
\* from the storage; once all have resolved the list is assigned, then
\* Eventbrite fetches its event series and the others store the list.
SettleFeed(k, c) ==
    IF c.pc # "fetching" THEN c
    ELSE IF \E s \in FeedSources : c.src[s].st = "failed"
         THEN [c EXCEPT !.pc = "returned", !.out = c.old]
    ELSE IF \A s \in FeedSources : c.src[s].st = "done"
         THEN IF k = "eventbrite"
              THEN [c EXCEPT !.pc = "series", !.fresh = Collected(c.src)]
              ELSE [c EXCEPT !.pc = "setItem", !.fresh = Collected(c.src),
                             !.all = Collected(c.src)]
    ELSE c

SetSource(k, s, source) ==
    feed' = [feed EXCEPT ![k] = SettleFeed(k, [feed[k] EXCEPT !.src[s] = source])]

\* The handler of feed k is called: getItem is awaited.  (One handler at a
\* time: the feeds share nothing.)
FeedStart(k) ==
    /\ \A j \in Feeds : feed[j].pc \in {"idle", "returned"}
    /\ feed' = [j \in Feeds |-> IF j = k THEN [IdleFeed EXCEPT !.pc = "getItem"]
                                ELSE IdleFeed]
    /\ UNCHANGED <<organizers, dbPosts, completed, events, run, unit, task, fixup,
                   faults, user, storage>>

\* getItem answers: every configured source is fetched.
FeedGetItem(k) ==
    /\ feed[k].pc = "getItem"
    /\ feed' = [feed EXCEPT ![k] =
                  [feed[k] EXCEPT !.pc = "fetching", !.old = storage[k],
                                  !.src = [s \in FeedSources |->
                                             [IdleSource EXCEPT !.st = "fetch"]]]]
    /\ UNCHANGED <<organizers, dbPosts, completed, events, run, unit, task, fixup,
                   faults, user, storage>>

\* The response of source s arrives, ok (2xx) or not.
FeedResponse(k, s, ok) ==
    /\ feed[k].src[s].st = "fetch"
    /\ SetSource(k, s, IF ok THEN [feed[k].src[s] EXCEPT !.st = "body", !.ok = "ok"]
                       ELSE AfterNotOk(k, feed[k].src[s]))
    /\ UNCHANGED <<organizers, dbPosts, completed, events, run, unit, task, fixup,
                   faults, user, storage>>

\* The body of source s is read and converted to the events evs.
FeedBody(k, s, evs) ==
    /\ feed[k].src[s].st = "body"
    /\ SetSource(k, s, [feed[k].src[s] EXCEPT !.st = "done", !.evs = evs])
    /\ UNCHANGED <<organizers, dbPosts, completed, events, run, unit, task, fixup,
                   faults, user, storage>>

\* The fetch of source s rejects, or its body cannot be converted.
FeedSourceFails(k, s) ==
    /\ feed[k].src[s].st \in {"fetch", "body"}
    /\ SetSource(k, s, [feed[k].src[s] EXCEPT !.st = "failed"])
    /\ faults < MaxFaults
    /\ faults' = faults + 1
    /\ UNCHANGED <<organizers, dbPosts, completed, events, run, unit, task, fixup,
                   user, storage>>

\* Eventbrite: getEventSeries answers for the configured series (the
\* events of the body, or none when the body has no events).
FeedSeriesDone(k, evs) ==
    /\ feed[k].pc = "series"
    /\ feed' = [feed EXCEPT ![k].pc = "setItem",
                            ![k].all = WithSeries(feed[k].fresh, evs)]
    /\ UNCHANGED <<organizers, dbPosts, completed, events, run, unit, task, fixup,
                   faults, user, storage>>

\* setItem answers: the list is stored and returned.
FeedSetItem(k) ==
    /\ feed[k].pc = "setItem"
    /\ storage' = [storage EXCEPT ![k] = feed[k].all]
    /\ feed' = [feed EXCEPT ![k].pc = "returned", ![k].out = feed[k].all]
    /\ UNCHANGED <<organizers, dbPosts, completed, events, run, unit, task, fixup,
                   faults, user>>

\* getEventSeries or setItem rejects: the catch logs and the variable that
\* was assigned from Promise.all is returned.
FeedLateFails(k) ==
    /\ feed[k].pc \in {"series", "setItem"}
    /\ feed' = [feed EXCEPT ![k].pc = "returned", ![k].out = feed[k].fresh]
    /\ faults < MaxFaults
    /\ faults' = faults + 1
    /\ UNCHANGED <<organizers, dbPosts, completed, events, run, unit, task, fixup,
                   user, storage>>

NextFeed ==
    \/ \E k \in Feeds : FeedStart(k)
    \/ \E k \in Feeds : FeedGetItem(k)
    \/ \E k \in Feeds, s \in FeedSources : \E ok \in BOOLEAN : FeedResponse(k, s, ok)
    \/ \E k \in Feeds, s \in FeedSources : \E evs \in FeedEvents : FeedBody(k, s, evs)
    \/ \E k \in Feeds, s \in FeedSources : FeedSourceFails(k, s)
    \/ \E k \in Feeds : \E evs \in FeedEvents : FeedSeriesDone(k, evs)
    \/ \E k \in Feeds : FeedSetItem(k)
    \/ \E k \in Feeds : FeedLateFails(k)

SpecFeed == Init /\ [][NextFeed]_vars

\* ------------------------------------------------------------------------
\* Candidates
\* ------------------------------------------------------------------------
Cand(isEvent, hasStartHourInPost, isPastEvent, sh, eh, smin, emin, sd, ed, smo, emo, sy, ey) ==
    [k \in RequiredKeys |->
        CASE k = "isEvent" -> isEvent
          [] k = "title" -> Some("Live Music")
          [] k = "hasStartHourInPost" -> hasStartHourInPost
          [] k = "isPastEvent" -> isPastEvent
          [] k = "startHourMilitaryTime" -> sh
          [] k = "endHourMilitaryTime" -> eh
          [] k = "startMinute" -> smin
          [] k = "endMinute" -> emin
          [] k = "startDay" -> sd
          [] k = "endDay" -> ed
          [] k = "startMonth" -> smo
          [] k = "endMonth" -> emo
          [] k = "startYear" -> sy
          [] k = "endYear" -> ey]

\* Live music on 29 Dec 2023, 20:00 to 22:00.
LiveMusic ==
    Cand(Some(TRUE), Some(TRUE), Some(FALSE), Some(20), Some(22), Some(0), Some(0),
         Some(29), Some(29), Some(12), Some(12), Some(2023), None)

NotAnEvent == [LiveMusic EXCEPT !["isEvent"] = Some(FALSE)]

\* The answers of the inference service and the usage signals of the post
\* source in the orchestration model.
RunReplies == {Garbage, Content(LiveMusic), Content(NotAnEvent)}
RunUsage == {NoUsage, Usage(100, 99, 99)}

\* ------------------------------------------------------------------------
\* The orchestration: runs and fixup invocations over the shared store
\* ------------------------------------------------------------------------
Next ==
    \/ \E r \in Runs : StartRun(r)
    \/ \E r \in Runs, s \in Sources : OrgLookupDone(r, s)
    \/ \E r \in Runs, s \in Sources : OrgCreateDone(r, s)
    \/ \E r \in Runs, s \in Sources : OrgOpFails(r, s)
    \/ \E r \in Runs, s \in Sources : \E usage \in RunUsage : FetchResponse(r, s, usage)
    \/ \E r \in Runs, s \in Sources : \E ps \in SUBSET PostsOf(s) : FetchBody(r, s, ps)
    \/ \E r \in Runs, s \in Sources : FetchFails(r, s)
    \/ \E o \in Owners, p \in PostIds : PostCreateDone(o, p)
    \/ \E o \in Owners, p \in PostIds : OcrDone(o, p)
    \/ \E o \in Owners, p \in PostIds :
          \E reply \in RunReplies : InferenceReturns(o, p, reply)
    \/ \E o \in Owners, p \in PostIds : EventCreateDone(o, p)
    \/ \E o \in Owners, p \in PostIds : UpdateDone(o, p)
    \/ \E o \in Owners, p \in PostIds : TaskOpFails(o, p)
    \/ \E f \in Fixups : StartFixup(f)
    \/ \E f \in Fixups : FixupFindPosts(f)
    \/ \E f \in Fixups : FixupDispatch(f)
    \/ \E f \in Fixups : FixupFails(f)

Spec == Init /\ [][Next]_vars

\* ------------------------------------------------------------------------
\* Calls of scrapeInstagramEventsForUser over the empty store.
NextUser ==
    \/ \E u \in Users : \E username \in Names : StartUser(u, username)
    \/ \E u \in Users : UserLookupDone(u)
    \/ \E u \in Users : UserOrgCreateDone(u)
    \/ \E u \in Users : \E usage \in RunUsage : UserFetchResponse(u, usage)
    \/ \E u \in Users : \E ps \in SUBSET PostsOf(user[u].name) : UserFetchBody(u, ps)
    \/ \E u \in Users, p \in PostIds : PostCreateDone(UserOwner(u), p)
    \/ \E u \in Users, p \in PostIds : OcrDone(UserOwner(u), p)
    \/ \E u \in Users, p \in PostIds :
          \E reply \in RunReplies : InferenceReturns(UserOwner(u), p, reply)
    \/ \E u \in Users, p \in PostIds : EventCreateDone(UserOwner(u), p)
    \/ \E u \in Users, p \in PostIds : UpdateDone(UserOwner(u), p)

SpecUser == Init /\ [][NextUser]_vars

\* ------------------------------------------------------------------------
\* The processing of one fresh post, for every answer of the inference
\* service: the run is under way, post 1 of "a" has been created and its
\* OCR has answered, the inference call is in flight.
\* ------------------------------------------------------------------------
\* <<isEvent, hasStartHourInPost, isPastEvent>>: every combination of
\* booleans, and each flag null beside two accepting ones.
FlagCombos ==
    ({Some(TRUE), Some(FALSE)} \X {Some(TRUE), Some(FALSE)} \X {Some(TRUE), Some(FALSE)})
    \cup {<<None, Some(TRUE), Some(FALSE)>>, <<Some(TRUE), None, Some(FALSE)>>,
          <<Some(TRUE), Some(TRUE), None>>}

CandidateSpace ==
    {Cand(f[1], f[2], f[3], sh, eh, smin, emin, sd, ed, smo, emo, sy, ey) :
        f \in FlagCombos,
        sh \in {None, Some(20), Some(23)}, eh \in {None, Some(18), Some(22)},
        smin \in {None, Some(0)}, emin \in {None, Some(0)},
        sd \in {None, Some(29)}, ed \in {None, Some(29), Some(30)},
        smo \in {None, Some(12), Some(1)}, emo \in {None, Some(12), Some(1)},
        sy \in {None, Some(2023), Some(2024)}, ey \in {None, Some(2023)}}

\* Objects that lack one of the required keys.
Incomplete == {Without(c, k) : c \in {LiveMusic, NotAnEvent}, k \in RequiredKeys}

PostReplies == Replies(CandidateSpace \cup Incomplete)

InitPost ==
    /\ organizers = Sources
    /\ dbPosts = {1}
    /\ completed = {}
    /\ events = [p \in PostIds |-> <<>>]
    /\ run = [r \in Runs |-> IF r = 1 THEN "running" ELSE "idle"]
    /\ unit = [r \in Runs |-> [s \in Sources |->
                 IF r # 1 THEN IdleUnit
                 ELSE IF s = "a" THEN [IdleUnit EXCEPT !.pc = "posts"]
                 ELSE [IdleUnit EXCEPT !.pc = "returned", !.outcome = "ok"]]]
    /\ task = [o \in Owners |-> [p \in PostIds |->
                 IF o = RunOwner(1) /\ p = 1
                 THEN [IdleTask EXCEPT !.pc = "infer", !.steps = <<"postCreate", "ocr">>]
                 ELSE IdleTask]]
    /\ fixup = [f \in Fixups |-> IdleFixup]
    /\ faults = 0
    /\ user = [u \in Users |-> IdleUser]
    /\ storage = [k \in Feeds |-> None]
    /\ feed = [k \in Feeds |-> IdleFeed]

NextPost ==
    \/ /\ task[RunOwner(1)][1].pc = "infer"
       /\ \E reply \in PostReplies : InferenceReturns(RunOwner(1), 1, reply)
    \/ EventCreateDone(RunOwner(1), 1)
    \/ UpdateDone(RunOwner(1), 1)

SpecPost == InitPost /\ [][NextPost]_vars

\* ------------------------------------------------------------------------
\* The fetch of the posts, for every usage signal: the run is under way,
\* both organizers are stored and their fetch is in flight.
\* ------------------------------------------------------------------------
MetricValues == {0, 99, 100, 101}
FetchUsage == {NoUsage} \cup
    {Usage(c, t, w) : c \in MetricValues, t \in MetricValues, w \in MetricValues}

InitFetch ==
    /\ organizers = Sources
    /\ dbPosts = {}
    /\ completed = {}
    /\ events = [p \in PostIds |-> <<>>]
    /\ run = [r \in Runs |-> IF r = 1 THEN "running" ELSE "idle"]
    /\ unit = [r \in Runs |-> [s \in Sources |->
                 IF r = 1 THEN [IdleUnit EXCEPT !.pc = "fetch"] ELSE IdleUnit]]
    /\ task = [o \in Owners |-> [p \in PostIds |-> IdleTask]]
    /\ fixup = [f \in Fixups |-> IdleFixup]
    /\ faults = 0
    /\ user = [u \in Users |-> IdleUser]
    /\ storage = [k \in Feeds |-> None]
    /\ feed = [k \in Feeds |-> IdleFeed]

NextFetch ==
    \/ \E s \in Sources : \E usage \in FetchUsage : FetchResponse(1, s, usage)
    \/ \E s \in Sources : \E ps \in SUBSET PostsOf(s) : FetchBody(1, s, ps)
    \/ \E p \in PostIds : PostCreateDone(RunOwner(1), p)
    \/ \E p \in PostIds : OcrDone(RunOwner(1), p)
    \/ \E p \in PostIds : \E reply \in RunReplies : InferenceReturns(RunOwner(1), p, reply)
    \/ \E p \in PostIds : EventCreateDone(RunOwner(1), p)
    \/ \E p \in PostIds : UpdateDone(RunOwner(1), p)

SpecFetch == InitFetch /\ [][NextFetch]_vars

\* ========================================================================
\* Claims
\* ========================================================================
RunTask(r, p) == task[RunOwner(r)][p]

\* C1 (Spec): when the create of handleInstagramPost answers for a post whose
\* id is already stored, the task ends as "skipped" (null, not a failure)
\* in that very step, which writes no post, no event and no completion; a
\* skipped task has made no OCR and no inference call, and does nothing
\* more, in whichever run the post is fetched again.  (A store failure
\* other than the uniqueness violation is rethrown: err = "create".)
C1_SkipStep ==
    \A r \in Runs, p \in PostIds :
        (/\ RunTask(r, p).pc = "create"
         /\ p \in dbPosts
         /\ task'[RunOwner(r)][p] # RunTask(r, p)
         /\ task'[RunOwner(r)][p].err # "create")
        => /\ task'[RunOwner(r)][p].pc = "skipped"
           /\ dbPosts' = dbPosts
           /\ events' = events
           /\ completed' = completed

C1_SkippedStays ==
    \A r \in Runs, p \in PostIds :
        RunTask(r, p).pc = "skipped"
        => \/ task'[RunOwner(r)][p] = RunTask(r, p)
           \/ task'[RunOwner(r)][p] = IdleTask

C1_SkippedDidNothing ==
    \A r \in Runs, p \in PostIds :
        RunTask(r, p).pc = "skipped" => RunTask(r, p).steps = <<"postCreate">>

C1_ReplayIdempotent ==
    /\ [][C1_SkipStep]_vars
    /\ [][C1_SkippedStays]_vars
    /\ []C1_SkippedDidNothing

\* C1 witness: a post that already has its event and its completion is
\* fetched again and skipped.
C1_Witness ==
    \E r \in Runs, p \in PostIds :
        /\ RunTask(r, p).pc = "skipped"
        /\ p \in completed
        /\ Len(events[p]) = 1

\* C2 (Spec): every post has at most one event, under every interleaving of
\* runs and fixup invocations.
C2_AtMostOneEventPerPost == \A p \in PostIds : Len(events[p]) <= 1

\* C3 (SpecPost): the end of every created event is not before its start.
C3_EndNotBeforeStart ==
    \A p \in PostIds : \A i \in 1..Len(events[p]) :
        events[p][i].end >= events[p][i].start

\* C4 (Spec): scrapeAllInstagramEvents never ends with an exception.
C4_RunNeverAborts == \A r \in Runs : run[r] # "aborted"

\* C5 (Spec): an organizer whose fetch failed (rate limit or other fetch
\* error) has returned zero events without any of its posts being handled;
\* the failure does not reject the run (a run aborts only on a rejected
\* organizer lookup), does not leave the run stuck, and a completed run has
\* the count of every organizer, those that were fetched without failure
\* having all their posts settled.
FetchFailed(u) == u.outcome \in {"rateLimited", "fetchError"}

UnitBusy(r, s) ==
    \/ unit[r][s].pc \in {"lookup", "orgCreate", "fetch", "body"}
    \/ /\ unit[r][s].pc = "posts"
       /\ \E p \in PostsOf(s) : RunTask(r, p).pc \in InFlight

C5_FetchFailureIsolated ==
    \A r \in Runs, s \in Sources :
        FetchFailed(unit[r][s])
        => /\ unit[r][s].pc = "returned"
           /\ unit[r][s].count = 0
           /\ \A p \in PostsOf(s) : RunTask(r, p).pc = "none"
           /\ run[r] = "aborted" => \E s2 \in Sources \ {s} : unit[r][s2].pc = "rejected"
           /\ run[r] = "running" => \E s2 \in Sources \ {s} : UnitBusy(r, s2)
           /\ run[r] = "completed"
              => \A s2 \in Sources \ {s} :
                    /\ unit[r][s2].pc = "returned"
                    /\ unit[r][s2].outcome = "ok"
                       => \A p \in PostsOf(s2) : RunTask(r, p).pc \notin InFlight

\* C5 witness: the fetch of "b" failed, "a" had both its posts processed,
\* one of them accepted, and the run completed.
C5_Witness ==
    \E r \in Runs :
        /\ FetchFailed(unit[r]["b"])
        /\ run[r] = "completed"
        /\ unit[r]["a"].outcome = "ok"
        /\ RunTask(r, 1).pc = "accepted"
        /\ RunTask(r, 2).pc \in Resolved

\* C6 (Spec): when OCR, inference or sanitization fails for a post, the
\* organizer's ingestion does not fail as a whole: it returns normally,
\* and only after the sibling posts have settled.
HardFailure(t) == t.pc = "failed" /\ t.err \in {"ocr", "infer", "parse", "shape"}

C6_PostFailureIsolated ==
    \A r \in Runs, s \in Sources :
        (/\ unit[r][s].pc = "returned"
         /\ \E p \in PostsOf(s) : HardFailure(RunTask(r, p)))
        => /\ unit[r][s].outcome = "ok"
           /\ \A p \in PostsOf(s) : RunTask(r, p).pc \notin InFlight

\* C7 (SpecPost): a sanitized result whose isEvent is not true, or whose
\* hasStartHourInPost is not true, or whose isPastEvent is not false, ends
\* the processing normally (rejected, no error) with no event and no
\* completion, whatever its temporal fields.
FlagsRefuse(inference) ==
    \/ inference["isEvent"] # Some(TRUE)
    \/ inference["hasStartHourInPost"] # Some(TRUE)
    \/ inference["isPastEvent"] # Some(FALSE)

C7_GateRejects ==
    \A o \in Owners, p \in PostIds :
        (task[o][p].inf # None /\ FlagsRefuse(Val(task[o][p].inf)))
        => /\ task[o][p].pc = "rejected"
           /\ task[o][p].err = "none"
           /\ events[p] = <<>>
           /\ p \notin completed

\* C7 witness: a past event with every temporal field given is rejected.
C7_Witness ==
    /\ RunTask(1, 1).pc = "rejected"
    /\ RunTask(1, 1).raw = Some([LiveMusic EXCEPT !["isPastEvent"] = Some(TRUE),
                                                  !["endYear"] = Some(2023)])

\* C8 (SpecPost): an object that lacks one of the fourteen required keys
\* makes the sanitizer throw: the processing of the post fails, no event is
\* created and no completion is set.
C8_MissingKeyFails ==
    \A o \in Owners, p \in PostIds :
        (task[o][p].raw # None /\ ~(RequiredKeys \subseteq DOMAIN Val(task[o][p].raw)))
        => /\ task[o][p].pc = "failed"
           /\ task[o][p].err = "shape"
           /\ events[p] = <<>>
           /\ p \notin completed

\* C8 witness: the answer is an otherwise acceptable event without title.
C8_Witness ==
    /\ RunTask(1, 1).pc = "failed"
    /\ RunTask(1, 1).raw = Some(Without(LiveMusic, "title"))

\* C9 (SpecFetch): once the response has arrived, the fetch has halted
\* with the rate-limit error exactly when the usage signal is present and
\* one of its three metrics is at least 100; else it goes on to the body.
\* A halted fetch has created no post of its organizer.
HaltExpected(usage) ==
    /\ usage # NoUsage
    /\ \E k \in {"call_count", "total_cputime", "total_time"} : Val(usage)[k] >= 100

C9_RateLimitGuard ==
    \A s \in Sources :
        unit[1][s].pc # "fetch"
        => /\ unit[1][s].outcome = "rateLimited" <=> HaltExpected(unit[1][s].usage)
           /\ unit[1][s].outcome = "rateLimited"
              => /\ unit[1][s].pc = "returned"
                 /\ \A p \in PostsOf(s) : RunTask(1, p).pc = "none" /\ p \notin dbPosts
           /\ ~HaltExpected(unit[1][s].usage)
              => unit[1][s].pc \in {"body", "posts", "returned"}

\* C9 witness: "a" is halted by total_time = 100 alone, while "b", whose
\* signal has all three metrics at 99, went on.
C9_Witness ==
    /\ unit[1]["a"].outcome = "rateLimited"
    /\ unit[1]["a"].usage = Usage(0, 99, 100)
    /\ unit[1]["b"].usage = Usage(99, 99, 99)
    /\ unit[1]["b"].outcome = "ok"

\* C10 (Spec): a failed OCR call does not fail the processing of the post
\* (it is treated as no usable text, and inference is still attempted).
C10_OcrFailureIsNoText ==
    \A o \in Owners, p \in PostIds :
        task[o][p].err = "ocr" => task[o][p].pc # "failed"

\* C11 (Spec): a fixup invocation makes no OCR call for any post: no
\* processing started by a fixup has an OCR call in flight or in its call
\* history.  (It selects the posts whose completedAt is null: C12.)
FixTask(f, p) == task[FixOwner(f)][p]

C11_FixupMakesNoOcrCall ==
    \A f \in Fixups, p \in PostIds :
        /\ FixTask(f, p).pc # "ocr"
        /\ \A i \in 1..Len(FixTask(f, p).steps) : FixTask(f, p).steps[i] # "ocr"

\* ------------------------------------------------------------------------
\* Repeated fixup invocations over posts that a finished run left without
\* completion: the run has created both posts of "a" and the gate has
\* rejected both.  Every started operation eventually answers or fails
\* and fixup keeps being invoked.
\* ------------------------------------------------------------------------
RejectedTask(p) ==
    [pc |-> "rejected",
     steps |-> IF HasMedia(p) THEN <<"postCreate", "ocr", "infer">>
               ELSE <<"postCreate", "infer">>,
     err |-> "none", raw |-> Some(NotAnEvent),
     inf |-> Some(postProcessOpenAiInstagramResponse(NotAnEvent))]

InitFixup ==
    /\ organizers = Sources
    /\ dbPosts = PostIds
    /\ completed = {}
    /\ events = [p \in PostIds |-> <<>>]
    /\ run = [r \in Runs |-> IF r = 1 THEN "completed" ELSE "idle"]
    /\ unit = [r \in Runs |-> [s \in Sources |->
                 IF r = 1 THEN [IdleUnit EXCEPT !.pc = "returned", !.outcome = "ok"]
                 ELSE IdleUnit]]
    /\ task = [o \in Owners |-> [p \in PostIds |->
                 IF o = RunOwner(1) THEN RejectedTask(p) ELSE IdleTask]]
    /\ fixup = [f \in Fixups |-> IdleFixup]
    /\ faults = 0
    /\ user = [u \in Users |-> IdleUser]
    /\ storage = [k \in Feeds |-> None]
    /\ feed = [k \in Feeds |-> IdleFeed]

FixupInvoked == \E f \in Fixups : StartFixup(f)
FixupFound == \E f \in Fixups : FixupFindPosts(f)
FixupDispatched == \E f \in Fixups : FixupDispatch(f)
FixupOcrAnswers == \E f \in Fixups, p \in PostIds : OcrDone(FixOwner(f), p)
FixupInferenceAnswers ==
    \E f \in Fixups, p \in PostIds :
        \E reply \in RunReplies : InferenceReturns(FixOwner(f), p, reply)
FixupEventCreated == \E f \in Fixups, p \in PostIds : EventCreateDone(FixOwner(f), p)
FixupPostUpdated == \E f \in Fixups, p \in PostIds : UpdateDone(FixOwner(f), p)
\* A failure of the store or of an external service (none need happen).
FixupOpFails ==
    \/ \E f \in Fixups : FixupFails(f)
    \/ \E f \in Fixups, p \in PostIds : TaskOpFails(FixOwner(f), p)

\* The steps that are taken as long as there is one to take: an operation
\* in flight answers, and a new invocation follows the finished ones.
FixupProgress ==
    \/ FixupInvoked
    \/ FixupFound
    \/ FixupDispatched
    \/ FixupOcrAnswers
    \/ FixupInferenceAnswers
    \/ FixupEventCreated
    \/ FixupPostUpdated

NextFixup ==
    \/ FixupProgress
    \/ FixupOpFails

SpecFixup == InitFixup /\ [][NextFixup]_vars /\ WF_vars(FixupProgress)

\* C12 (SpecFixup): the step in which the gate rejects a post leaves its
\* completion as it was; a fixup invocation selects exactly the stored
\* posts without completion and starts the processing of each of them; so
\* a post is reprocessed again and again for as long as it is not accepted
\* (at infinitely many times it has its completion, which is never cleared,
\* or its inference is being run by a fixup).
C12_RejectKeepsIncomplete ==
    \A o \in Owners, p \in PostIds :
        (task[o][p].pc = "infer" /\ task'[o][p].pc = "rejected")
        => (p \in completed' <=> p \in completed)

C12_FindSelectsIncomplete ==
    \A f \in Fixups :
        /\ (fixup[f].pc = "findPosts" /\ fixup'[f].pc = "findOrganizers")
           => fixup'[f].sel = dbPosts \ completed
        /\ (fixup[f].pc = "findOrganizers" /\ fixup'[f].pc = "returned")
           => \A p \in fixup[f].sel : task'[FixOwner(f)][p].pc \in {"ocr", "infer"}

Reprocessing(p) == \E f \in Fixups : FixTask(f, p).pc = "infer"

C12_RejectedReprocessedForever ==
    /\ [][C12_RejectKeepsIncomplete]_vars
    /\ [][C12_FindSelectsIncomplete]_vars
    /\ \A p \in PostIds : []<>(p \in completed \/ Reprocessing(p))

\* C12 witness: a fixup has reprocessed post 1, which the run had rejected,
\* the gate has rejected it again and it is still without completion.
C12_Witness ==
    \E f \in Fixups :
        /\ RunTask(1, 1).pc = "rejected"
        /\ FixTask(f, 1).pc = "rejected"
        /\ 1 \notin completed
        /\ fixup[f].pc = "returned"

\* C13 (SpecUser): callers of getOrInsertOrganizer for a configured handle,
\* concurrent ones included, never fail in it: a uniqueness violation of
\* the create is treated as "already exists", so every caller gets past
\* getOrInsertOrganizer with the organizer stored.
C13_ConcurrentUpsertBothSucceed ==
    \A u \in Users :
        user[u].name \in Sources
        => /\ user[u].unit.pc # "rejected"
           /\ user[u].unit.pc \in {"fetch", "body", "posts", "returned"}
              => user[u].name \in organizers

\* C14 (SpecUser): a call of scrapeInstagramEventsForUser with a username
\* that is not configured has failed with the 'No Instagram account' error
\* without any store operation or fetch.
C14_UnknownNameFailsWithNoAccount ==
    \A u \in Users :
        (user[u].unit.pc # "idle" /\ user[u].name \notin Sources)
        => /\ user[u].unit.pc = "rejected"
           /\ user[u].err = "noAccount"
           /\ user[u].unit.usage = NoUsage
           /\ user[u].name \notin organizers
           /\ \A p \in PostIds : task[UserOwner(u)][p] = IdleTask

\* C15 (SpecPost): every created event comes from a sanitized result whose
\* ten temporal fields are all non-null.
TemporalKeys ==
    {"startYear", "startMonth", "startDay", "startHourMilitaryTime", "startMinute",
     "endYear", "endMonth", "endDay", "endHourMilitaryTime", "endMinute"}

C15_TemporalFieldsComplete ==
    \A o \in Owners, p \in PostIds :
        task[o][p].pc \in {"update", "accepted"}
        => \A k \in TemporalKeys : Val(task[o][p].inf)[k] # None

\* C17 (SpecPost): when the inferred startMonth is 12 and the inferred
\* endMonth is 1, the sanitized endYear is the sanitized startYear plus one
\* (the current year standing for a null startYear), whatever the inferred
\* endYear.
C17_YearRollover ==
    \A o \in Owners, p \in PostIds :
        LET t == task[o][p]
        IN  (/\ t.inf # None
             /\ Val(t.raw)["startMonth"] = Some(12)
             /\ Val(t.raw)["endMonth"] = Some(1))
            => LET sy == IF Val(t.raw)["startYear"] = None THEN CurrentYear
                         ELSE Val(Val(t.raw)["startYear"])
               IN  /\ Val(t.inf)["startYear"] = Some(sy)
                   /\ Val(t.inf)["endYear"] = Some(sy + 1)

\* C17 witness: startMonth 12, endMonth 1, startYear 2024 and a null endYear
\* gave the endYear 2025.
C17_Witness ==
    /\ RunTask(1, 1).inf # None
    /\ Val(RunTask(1, 1).raw)["startMonth"] = Some(12)
    /\ Val(RunTask(1, 1).raw)["endMonth"] = Some(1)
    /\ Val(RunTask(1, 1).raw)["startYear"] = Some(2024)
    /\ Val(RunTask(1, 1).raw)["endYear"] = None
    /\ Val(RunTask(1, 1).inf)["endYear"] = Some(2025)

\* C18 (SpecPost), as claimed: a null endHourMilitaryTime becomes
\* startHourMilitaryTime + 2, less 24 when that exceeds 23, in which case
\* the endDay after the endDay rule (the inferred endDay, or startDay when
\* that was null) is incremented by one; an endHourMilitaryTime that is not
\* null is kept, and so is that endDay.  (For results with a start hour and
\* a start day.)
EndDayBase(raw) == IF raw["endDay"] = None THEN raw["startDay"] ELSE raw["endDay"]

C18_EndDayIncremented ==
    \A o \in Owners, p \in PostIds :
        LET t == task[o][p]
        IN  (/\ t.inf # None
             /\ Val(t.raw)["startHourMilitaryTime"] # None
             /\ Val(t.raw)["startDay"] # None)
            => LET raw == Val(t.raw)
                   sum == Val(raw["startHourMilitaryTime"]) + 2
               IN  IF raw["endHourMilitaryTime"] # None
                   THEN /\ Val(t.inf)["endHourMilitaryTime"] = raw["endHourMilitaryTime"]
                        /\ Val(t.inf)["endDay"] = EndDayBase(raw)
                   ELSE IF sum > 23
                   THEN /\ Val(t.inf)["endHourMilitaryTime"] = Some(sum - 24)
                        /\ Val(t.inf)["endDay"] = Some(Val(EndDayBase(raw)) + 1)
                   ELSE /\ Val(t.inf)["endHourMilitaryTime"] = Some(sum)
                        /\ Val(t.inf)["endDay"] = EndDayBase(raw)

\* C18 (SpecPost), as amended: the same, except that when the sum exceeds
\* 23 the endDay becomes startDay + 1, whatever the inferred endDay.
C18_EndDayAfterStartDay ==
    \A o \in Owners, p \in PostIds :
        LET t == task[o][p]
        IN  (/\ t.inf # None
             /\ Val(t.raw)["startHourMilitaryTime"] # None
             /\ Val(t.raw)["startDay"] # None)
            => LET raw == Val(t.raw)
                   sum == Val(raw["startHourMilitaryTime"]) + 2
               IN  IF raw["endHourMilitaryTime"] # None
                   THEN /\ Val(t.inf)["endHourMilitaryTime"] = raw["endHourMilitaryTime"]
                        /\ Val(t.inf)["endDay"] = EndDayBase(raw)
                   ELSE IF sum > 23
                   THEN /\ Val(t.inf)["endHourMilitaryTime"] = Some(sum - 24)
                        /\ Val(t.inf)["endDay"] = Some(Val(raw["startDay"]) + 1)
                   ELSE /\ Val(t.inf)["endHourMilitaryTime"] = Some(sum)
                        /\ Val(t.inf)["endDay"] = EndDayBase(raw)

\* C18 witness: start hour 23 on day 29 with a null end hour and the
\* inferred endDay 30 gave the end hour 1 on day 30.
C18_Witness ==
    /\ RunTask(1, 1).inf # None
    /\ Val(RunTask(1, 1).raw)["startHourMilitaryTime"] = Some(23)
    /\ Val(RunTask(1, 1).raw)["endHourMilitaryTime"] = None
    /\ Val(RunTask(1, 1).raw)["startDay"] = Some(29)
    /\ Val(RunTask(1, 1).raw)["endDay"] = Some(30)
    /\ Val(RunTask(1, 1).inf)["endHourMilitaryTime"] = Some(1)
    /\ Val(RunTask(1, 1).inf)["endDay"] = Some(30)

\* C16 (Spec): no step of a run or of a fixup clears a completion: a post
\* that has one keeps it.
C16_CompletionKept == completed \subseteq completed'

C16_CompletionNeverCleared == [][C16_CompletionKept]_vars

\* C16 witness: a fixup completed a post that the run had left without
\* completion, and a later run fetched the post again and skipped it.
C16_Witness ==
    \E f \in Fixups, p \in PostIds :
        /\ FixTask(f, p).pc = "accepted"
        /\ RunTask(1, p).pc = "skipped"
        /\ p \in completed

\* C19 (SpecFetch): in a run over organizers without stored posts, a
\* fetched post whose inference answers with the Live Music result (29 Dec
\* 2023, 20:00 to 22:00, endYear null) gets exactly one event, from
\* 2023-12-30T04:00Z to 2023-12-30T06:00Z, and then its completion.
LiveMusicEvent ==
    [start |-> UtcInstant(2023, 12, 30, 4, 0), end |-> UtcInstant(2023, 12, 30, 6, 0)]

C19_EndToEnd ==
    \A p \in PostIds :
        (RunTask(1, p).pc \in {"update", "accepted"} /\ RunTask(1, p).raw = Some(LiveMusic))
        => /\ events[p] = <<LiveMusicEvent>>
           /\ RunTask(1, p).pc = "accepted" => p \in completed

\* C19 witness: the only post fetched for "a" was accepted, the organizer's
\* ingestion returned, and the store holds the one event and the completion.
C19_Witness ==
    /\ RunTask(1, 1).pc = "accepted"
    /\ RunTask(1, 1).raw = Some(LiveMusic)
    /\ RunTask(1, 2).pc = "none"
    /\ unit[1]["a"].pc = "returned"
    /\ unit[1]["a"].outcome = "ok"
    /\ events = [p \in PostIds |-> IF p = 1 THEN <<LiveMusicEvent>> ELSE <<>>]
    /\ completed = {1}
    /\ dbPosts = {1}

\* C20 (SpecFeed): in each feed, a source whose response is not 2xx yields
\* the empty list for that source and nothing else: when no fetch, body or
\* storage operation failed, the call returns, and has stored, the list
\* that has the fresh events of every other source.
C20_NotOkSourceIsolated ==
    \A k \in Feeds, s \in FeedSources :
        (feed[k].src[s].ok = "bad" /\ faults = 0)
        => /\ feed[k].src[s].st = "done"
           /\ feed[k].src[s].evs = {}
           /\ feed[k].pc = "returned"
              => /\ feed[k].out # None
                 /\ \A s2 \in FeedSources :
                       /\ feed[k].src[s2].st = "done"
                       /\ Val(feed[k].out)[s2] = feed[k].src[s2].evs
                 /\ storage[k] = feed[k].out

\* C21 (Spec): when ingestEventsForOrganizer has returned for an organizer,
\* none of the organizer's posts is still being processed (no post create,
\* OCR, inference, event create or update in flight), also when one of its
\* posts failed; the same holds of every organizer once the run has logged
\* its completion summary.
C21_FanInWithinOrganizer ==
    \A r \in Runs, s \in Sources :
        (unit[r][s].pc = "returned" \/ run[r] = "completed")
        => \A p \in PostsOf(s) : RunTask(r, p).pc \notin InFlight

\* C23 (SpecFetch): the count an organizer's ingestion returns to the
\* completion summary is the number of events the run created for the
\* organizer.
C23_CountIsEventsCreated ==
    \A s \in Sources :
        unit[1][s].pc = "returned"
        => unit[1][s].count =
              Cardinality({p \in PostsOf(s) :
                             RunTask(1, p).pc \in {"update", "accepted"}})

\* C24 (Spec): once no processing of a post is under way, the post has
\* an event only if it has its completion.
C24_AcceptedAllOrNothing ==
    \A p \in PostIds :
        (/\ \A o \in Owners : task[o][p].pc \notin InFlight
         /\ events[p] # <<>>)
        => p \in completed

\* C22 (Spec): the awaited calls of the processing of one post are made one
\* after the other in the order post create, OCR (for a post with media),
\* inference, event create, completion update, whatever else is under way:
\* the calls that answered or failed so far are a prefix of that order,
\* the call in flight is the next one, and the store agrees (the post is
\* stored before its OCR starts, an event exists before the update is
\* issued and before a completion is set).  A fixup starts after the post
\* create.
ExpectedSteps(o, p) ==
    (IF o[1] = "fix" THEN <<>> ELSE <<"postCreate">>)
    \o (IF HasMedia(p) THEN <<"ocr">> ELSE <<>>)
    \o <<"infer", "eventCreate", "update">>

\* The name of a call in the order (a failed post create is recorded under
\* the name of the position it failed at).
StepName(x) == IF x = "create" THEN "postCreate" ELSE x

C22_StepsInOrder ==
    \A o \in Owners, p \in PostIds :
        LET t == task[o][p]
            e == ExpectedSteps(o, p)
            n == Len(t.steps)
        IN  /\ n <= Len(e)
            /\ \A i \in 1..n : StepName(t.steps[i]) = e[i]
            /\ t.pc \in InFlight => (n < Len(e) /\ e[n + 1] = StepName(t.pc))
            /\ t.pc \in {"ocr", "infer", "eventCreate", "update", "accepted"}
               => p \in dbPosts
            /\ t.pc \in {"update", "accepted"} => events[p] # <<>>
            /\ p \in completed => events[p] # <<>>

\* C22 witness: both posts of "a" were processed to the end in the same
\* run, post 1 through all five calls.
C22_Witness ==
    /\ RunTask(1, 1).pc = "accepted"
    /\ RunTask(1, 1).steps = <<"postCreate", "ocr", "infer", "eventCreate", "update">>
    /\ RunTask(1, 2).pc = "accepted"
    /\ RunTask(1, 2).steps = <<"postCreate", "infer", "eventCreate", "update">>

====
